---- MODULE Spec2Model ----
(***************************************************************************)
(* A model of the packaging engine of BundleGen                            *)
(* (src/bundlegen/core/utils.py, called from src/bundlegen/cli/main.py):   *)
(* create_control_file, add_tarinfo, create_tgz, create_ipk and            *)
(* create_sky_widget, acting on a working directory, a source tree and a   *)
(* temporary root.                                                         *)
(*                                                                         *)
(* Three specifications share the definitions:                             *)
(*   Spec      one caller issuing packaging calls one after another;       *)
(*   SpecConc  two callers running create_control_file + create_ipk in the *)
(*             same working directory, interleaved at file-operation       *)
(*             granularity;                                                *)
(*   SpecWalk  the recursive walk add_tarinfo (and the bulk tar.add path)  *)
(*             of create_tgz over every small source tree.                 *)
(***************************************************************************)
EXTENDS Integers, Sequences, FiniteSets, TLC

VARIABLES
    fs,       \* working directory + output files: file name -> content
    src,      \* source directories: name -> 0 (does not exist) or its version
    scratch,  \* /tmp/bundlegen/<tmp_dir>: id -> content of the scratch workspace
    res,      \* which of the fixed resources under /home/vagrant/... exist
    pc,       \* per caller: position in the running call
    call,     \* per caller: arguments and locals of the running call
    hist,     \* per caller: the filesystem as it was when the call began
    prev,     \* per caller: the call that returned last
    packager, \* the packager the caller selected: "tgz", "ipk" or "wgt"
    wtree,    \* SpecWalk: the source tree (lstat result and parent per object)
    wpolicy,  \* SpecWalk: uid, gid, mode_mask handed to create_tgz
    wpc,      \* SpecWalk: position of the walk
    wstack,   \* SpecWalk: the recursion stack of add_tarinfo / tar.add
    wtar      \* SpecWalk: the members added to the archive so far, in order

pkgvars == <<fs, src, scratch, res, pc, call, hist, prev, packager>>
walkvars == <<wtree, wpolicy, wpc, wstack, wtar>>
vars == <<fs, src, scratch, res, pc, call, hist, prev, packager,
          wtree, wpolicy, wpc, wstack, wtar>>

(***************************************************************************)
(* Bounds of the model.                                                    *)
(***************************************************************************)
MaxVer == 2      \* versions a source tree goes through
MaxTmp == 2      \* scratch workspaces that can exist at once
MaxNodes == 3    \* filesystem objects below the root of a walked tree

Procs == {1, 2}
Sources == {"A", "B"}
TmpIds == 1..MaxTmp

(***************************************************************************)
(* File names.  A name is the sequence of its parts, so that               *)
(* dest.endswith(suffix) and f'{dest}{suffix}' are computed, not assumed.  *)
(***************************************************************************)
CONTROL_FILE == <<"control">>
DATA_NAME == <<"data", ".tar.gz">>
CONTROL_NAME == <<"control", ".tar.gz">>
DEBIAN_BIN_NAME == <<"debian-binary">>
Intermediates == {CONTROL_FILE, DATA_NAME, CONTROL_NAME, DEBIAN_BIN_NAME}

EndsWith(dest, suffix) == Len(dest) > 0 /\ dest[Len(dest)] = suffix

OutputFilename(dest, suffix) ==
    IF ~EndsWith(dest, suffix) THEN Append(dest, suffix) ELSE dest

Suffix(op) ==
    CASE op = "tgz" -> ".tar.gz"
      [] op = "ipk" -> ".ipk"
      [] op = "wgt" -> ".wgt"

\* the destinations a caller passes: with and without the suffix
DestsOf(op) == {<<"out">>, <<"out", Suffix(op)>>}
\* the destination of each of the two concurrent callers
ConcDest(p) == IF p = 1 THEN <<"out">> ELSE <<"out2">>
ConcSource(p) == IF p = 1 THEN "A" ELSE "B"

FileNames ==
    Intermediates
    \cup {OutputFilename(<<"out">>, Suffix(op)) : op \in {"tgz", "ipk", "wgt"}}
    \cup {OutputFilename(ConcDest(2), ".ipk")}

(***************************************************************************)
(* File contents.                                                          *)
(***************************************************************************)
NoFile == [kind |-> "absent"]
Tree(s, v) == [kind |-> "tree", src |-> s, ver |-> v]
TarOpen == [kind |-> "tar", closed |-> FALSE, members |-> <<>>]
TarAdd(t, name, body) ==
    [t EXCEPT !.members = Append(@, [name |-> name, body |-> body])]
TextOpen == [kind |-> "text", closed |-> FALSE, lines |-> <<>>]
TextWrite(lines) == [kind |-> "text", closed |-> TRUE, lines |-> lines]
\* leaving a with-block normally: the file is finished and closed
Close_Noop(c) == c
Close(c) == [c EXCEPT !.closed = TRUE]

\* os.path.exists(name) for a file
Exists(f, n) == f[n].kind # "absent"

\* os.remove(name) of an existing file
OsRemove_Keep(f, n) == f
OsRemove(f, n) == [f EXCEPT ![n] = NoFile]

\* open(name, "w") / tarfile.open(name, "w:gz"): create or truncate
OpenW_Append(f, n, empty) == IF Exists(f, n) THEN f ELSE [f EXCEPT ![n] = empty]
OpenW(f, n, empty) == [f EXCEPT ![n] = empty]

\* a write through an open handle: lost when the name was unlinked meanwhile
WriteTo(f, n, c) == IF Exists(f, n) THEN [f EXCEPT ![n] = c] ELSE f

\* os.path.exists(source) for the source directory
SourceExists_Always(srcs, s) == TRUE
SourceExists(srcs, s) == srcs[s] # 0

(***************************************************************************)
(* create_control_file: the manifest derived from the metadata.            *)
(***************************************************************************)
None == "None"
EmptyDict == [k \in {} |-> None]
Get(d, k, default) == IF k \in DOMAIN d THEN d[k] ELSE default
Str(x) == x   \* str(None) is the text "None", which None already is

Architecture(platform) ==
    IF "arch" \in DOMAIN platform   \* platform.get('arch') is truthy
    THEN <<Str(Get(platform["arch"], "arch", None)),
           Str(Get(platform["arch"], "variant", None))>>
    ELSE <<>>

Manifest(platform, app_metadata) ==
    << <<"Package", <<Get(app_metadata, "id", "test_package")>> >>,
       <<"Version", <<Get(app_metadata, "version", "1.0.0")>> >>,
       <<"Architecture", Architecture(platform)>>,
       <<"Description", <<Get(app_metadata, "description", "some package")>> >>,
       <<"Priority", <<Get(app_metadata, "priority", "optional")>> >>,
       <<"Depends", <<>> >> >>

(***************************************************************************)
(* Calls.                                                                  *)
(***************************************************************************)
NoCall == [op |-> "none", source |-> "A", dest |-> <<>>, out |-> <<>>,
           tgzout |-> <<>>, manifest |-> <<>>, tmp |-> 0, rc |-> -1,
           result |-> "none", fault |-> FALSE]
\* the call that returned last (op, result) and the packaging call that
\* returned last (packaged, source, dest, success)
NoPrev == [op |-> "none", result |-> "none",
           packaged |-> "none", source |-> "A", dest |-> <<>>, success |-> FALSE]
Snapshot == [fs |-> fs, src |-> src, scratch |-> scratch]
NoSnapshot == [fs |-> [n \in FileNames |-> NoFile], src |-> [s \in Sources |-> 0],
               scratch |-> [d \in TmpIds |-> NoFile]]

Idle(p) == pc[p] = "idle"
Terminal(p) == pc[p] \in {"done", "raised"}

\* a `return value` statement
ReturnValue(p, value) ==
    /\ pc' = [pc EXCEPT ![p] = "done"]
    /\ call' = [call EXCEPT ![p].result = value]

\* an exception leaving the call
Raise(p) ==
    /\ pc' = [pc EXCEPT ![p] = "raised"]
    /\ call' = [call EXCEPT ![p].result = "raised"]

Goto(p, label) == pc' = [pc EXCEPT ![p] = label]

Begin(p, c, label) ==
    /\ Idle(p)
    /\ call' = [call EXCEPT ![p] = c]
    /\ hist' = [hist EXCEPT ![p] = Snapshot]
    /\ pc' = [pc EXCEPT ![p] = label]
    /\ UNCHANGED <<fs, src, scratch, res, prev, packager, walkvars>>

\* the caller gets the result (or the exception) and is free to call again
Return(p) ==
    /\ Terminal(p)
    /\ prev' = [prev EXCEPT ![p] =
                  IF call[p].op = "ctl"
                  THEN [@ EXCEPT !.op = "ctl", !.result = call[p].result]
                  ELSE [op |-> call[p].op, result |-> call[p].result,
                        packaged |-> call[p].op, source |-> call[p].source,
                        dest |-> call[p].dest,
                        success |-> (call[p].result = "True")]]
    /\ pc' = [pc EXCEPT ![p] = "idle"]
    /\ call' = [call EXCEPT ![p] = NoCall]
    /\ hist' = [hist EXCEPT ![p] = NoSnapshot]
    /\ UNCHANGED <<fs, src, scratch, res, packager, walkvars>>

(***************************************************************************)
(* create_control_file(platform, app_metadata)                             *)
(***************************************************************************)
Invoke_create_control_file(p, platform, app_metadata) ==
    /\ packager = "ipk"
    /\ Begin(p, [NoCall EXCEPT !.op = "ctl",
                               !.manifest = Manifest(platform, app_metadata)],
             "ctl_open")

create_control_file_open(p) ==
    /\ pc[p] = "ctl_open"
    /\ fs' = OpenW(fs, CONTROL_FILE, TextOpen)
    /\ Goto(p, "ctl_write")
    /\ UNCHANGED <<src, scratch, res, call, hist, prev, packager, walkvars>>

create_control_file_write(p) ==
    /\ pc[p] = "ctl_write"
    /\ fs' = WriteTo(fs, CONTROL_FILE, TextWrite(call[p].manifest))
    /\ ReturnValue(p, "None")
    /\ UNCHANGED <<src, scratch, res, hist, prev, packager, walkvars>>

(***************************************************************************)
(* create_tgz(source, dest), also as called by create_ipk.  The archive of *)
(* the tree is one member here; SpecWalk expands it entry by entry.        *)
(***************************************************************************)
Invoke_create_tgz(p, source, dest) ==
    /\ packager = "tgz"
    /\ Begin(p, [NoCall EXCEPT !.op = "tgz", !.source = source, !.dest = dest,
                               !.tgzout = OutputFilename(dest, ".tar.gz")],
             "tgz_check")

\* where create_tgz's caller continues: create_ipk drops the returned value
TgzReturn(p, value) ==
    IF call[p].op = "ipk"
    THEN Goto(p, "ipk_ctl_open") /\ UNCHANGED call
    ELSE ReturnValue(p, value)

create_tgz_check(p) ==
    /\ pc[p] = "tgz_check"
    /\ IF ~SourceExists(src, call[p].source)
       THEN TgzReturn(p, "False")
       ELSE Goto(p, "tgz_rm") /\ UNCHANGED call
    /\ UNCHANGED <<fs, src, scratch, res, hist, prev, packager, walkvars>>

create_tgz_remove(p) ==
    /\ pc[p] = "tgz_rm"
    /\ fs' = IF Exists(fs, call[p].tgzout) THEN OsRemove(fs, call[p].tgzout) ELSE fs
    /\ Goto(p, "tgz_open")
    /\ UNCHANGED <<src, scratch, res, call, hist, prev, packager, walkvars>>

create_tgz_open(p) ==
    /\ pc[p] = "tgz_open"
    /\ fs' = OpenW(fs, call[p].tgzout, TarOpen)
    /\ Goto(p, "tgz_add")
    /\ UNCHANGED <<src, scratch, res, call, hist, prev, packager, walkvars>>

create_tgz_add(p) ==
    /\ pc[p] = "tgz_add"
    /\ fs' = WriteTo(fs, call[p].tgzout,
                     TarAdd(fs[call[p].tgzout], <<>>,
                            Tree(call[p].source, src[call[p].source])))
    /\ Goto(p, "tgz_close")
    /\ UNCHANGED <<src, scratch, res, call, hist, prev, packager, walkvars>>

create_tgz_close(p) ==
    /\ pc[p] = "tgz_close"
    /\ fs' = WriteTo(fs, call[p].tgzout, Close(fs[call[p].tgzout]))
    /\ TgzReturn(p, "True")
    /\ UNCHANGED <<src, scratch, res, hist, prev, packager, walkvars>>

(***************************************************************************)
(* create_ipk(source, dest)                                                *)
(***************************************************************************)
Invoke_create_ipk(p, source, dest) ==
    /\ packager = "ipk"
    /\ Begin(p, [NoCall EXCEPT !.op = "ipk", !.source = source, !.dest = dest,
                               !.out = OutputFilename(dest, ".ipk"),
                               !.tgzout = OutputFilename(DATA_NAME, ".tar.gz")],
             "tgz_check")

\* tarfile.open(name, "w:gz") of one of create_ipk's archives
IpkOpen(p, at, name, next) ==
    /\ pc[p] = at
    /\ fs' = OpenW(fs, name, TarOpen)
    /\ Goto(p, next)
    /\ UNCHANGED <<src, scratch, res, call, hist, prev, packager, walkvars>>

\* tar.add(member) into the archive `name`: FileNotFoundError when the member
\* is missing, and the with-block then leaves the archive unfinished
IpkAdd(p, at, name, member, next) ==
    /\ pc[p] = at
    /\ IF Exists(fs, member)
       THEN /\ fs' = WriteTo(fs, name, TarAdd(fs[name], member, fs[member]))
            /\ Goto(p, next)
            /\ UNCHANGED call
       ELSE /\ Raise(p)
            /\ UNCHANGED fs
    /\ UNCHANGED <<src, scratch, res, hist, prev, packager, walkvars>>

\* leaving the with-block normally closes the archive
IpkClose(p, at, name, next) ==
    /\ pc[p] = at
    /\ fs' = WriteTo(fs, name, Close(fs[name]))
    /\ Goto(p, next)
    /\ UNCHANGED <<src, scratch, res, call, hist, prev, packager, walkvars>>

\* os.remove(name): FileNotFoundError when the file is missing
IpkRemove(p, at, name, next) ==
    /\ pc[p] = at
    /\ IF Exists(fs, name)
       THEN /\ fs' = OsRemove(fs, name)
            /\ IF next = "done" THEN ReturnValue(p, "True")
                                ELSE Goto(p, next) /\ UNCHANGED call
       ELSE /\ Raise(p)
            /\ UNCHANGED fs
    /\ UNCHANGED <<src, scratch, res, hist, prev, packager, walkvars>>

create_ipk_control_open(p) == IpkOpen(p, "ipk_ctl_open", CONTROL_NAME, "ipk_ctl_add")
create_ipk_control_add(p) ==
    IpkAdd(p, "ipk_ctl_add", CONTROL_NAME, CONTROL_FILE, "ipk_ctl_close")
create_ipk_control_close(p) == IpkClose(p, "ipk_ctl_close", CONTROL_NAME, "ipk_deb_open")

create_ipk_debian_open(p) ==
    /\ pc[p] = "ipk_deb_open"
    /\ fs' = OpenW(fs, DEBIAN_BIN_NAME, TextOpen)
    /\ Goto(p, "ipk_deb_write")
    /\ UNCHANGED <<src, scratch, res, call, hist, prev, packager, walkvars>>

create_ipk_debian_write(p) ==
    /\ pc[p] = "ipk_deb_write"
    /\ fs' = WriteTo(fs, DEBIAN_BIN_NAME, TextWrite(<<"2.0">>))
    /\ Goto(p, "ipk_out_open")
    /\ UNCHANGED <<src, scratch, res, call, hist, prev, packager, walkvars>>

create_ipk_bundle_open(p) == IpkOpen(p, "ipk_out_open", call[p].out, "ipk_add_data")
create_ipk_bundle_add_data(p) ==
    IpkAdd(p, "ipk_add_data", call[p].out, DATA_NAME, "ipk_add_ctl")
create_ipk_bundle_add_control(p) ==
    IpkAdd(p, "ipk_add_ctl", call[p].out, CONTROL_NAME, "ipk_add_deb")
create_ipk_bundle_add_debian(p) ==
    IpkAdd(p, "ipk_add_deb", call[p].out, DEBIAN_BIN_NAME, "ipk_out_close")
create_ipk_bundle_close(p) == IpkClose(p, "ipk_out_close", call[p].out, "ipk_rm_control")

create_ipk_remove_control(p) == IpkRemove(p, "ipk_rm_control", CONTROL_FILE, "ipk_rm_data")
create_ipk_remove_data(p) == IpkRemove(p, "ipk_rm_data", DATA_NAME, "ipk_rm_ctl")
create_ipk_remove_control_tar(p) == IpkRemove(p, "ipk_rm_ctl", CONTROL_NAME, "ipk_rm_deb")
create_ipk_remove_debian(p) == IpkRemove(p, "ipk_rm_deb", DEBIAN_BIN_NAME, "done")

(***************************************************************************)
(* create_sky_widget(source, dest)                                         *)
(***************************************************************************)
DirEmpty == [kind |-> "dir", items |-> {}]
Item(name, body) == [name |-> name, body |-> body]
ResourceFile(name) == [kind |-> "resource", name |-> name]
DirAdd(d, item) == [d EXCEPT !.items = @ \cup {item}]
\* the files below <tmp_dir>/wgt
WgtItems(d) == {i \in d.items : i.name # "temp.zip"}
Zip(items) == [kind |-> "zip", items |-> items]
Signed(zip) == [kind |-> "wgt", closed |-> TRUE, body |-> zip]
Unfinished == [kind |-> "wgt", closed |-> FALSE, body |-> Zip({})]

\* time.strftime(...) + get_random_string(): a directory name not in use
FreshTmp == CHOOSE d \in TmpIds :
                /\ scratch[d] = NoFile
                /\ \A e \in TmpIds : scratch[e] = NoFile => d <= e

\* shutil.rmtree(tmp_dir)
Rmtree(sc, d) == [sc EXCEPT ![d] = NoFile]

\* return return_code == 0
WidgetResult_Always(return_code) == "True"
WidgetResult(return_code) == IF return_code = 0 THEN "True" ELSE "False"

Invoke_create_sky_widget(p, source, dest) ==
    /\ packager = "wgt"
    /\ \E d \in TmpIds : scratch[d] = NoFile
    /\ Begin(p, [NoCall EXCEPT !.op = "wgt", !.source = source, !.dest = dest,
                               !.out = OutputFilename(dest, ".wgt")],
             "wgt_check")

create_sky_widget_check(p) ==
    /\ pc[p] = "wgt_check"
    /\ IF ~SourceExists(src, call[p].source)
       THEN ReturnValue(p, "False")
       ELSE Goto(p, "wgt_rm") /\ UNCHANGED call
    /\ UNCHANGED <<fs, src, scratch, res, hist, prev, packager, walkvars>>

create_sky_widget_remove(p) ==
    /\ pc[p] = "wgt_rm"
    /\ fs' = IF Exists(fs, call[p].out) THEN OsRemove(fs, call[p].out) ELSE fs
    /\ Goto(p, "wgt_copytree")
    /\ UNCHANGED <<src, scratch, res, call, hist, prev, packager, walkvars>>

\* shutil.copytree creates the destination directories, then copies; an error
\* while copying (shutil.Error) is raised with the directory in place
create_sky_widget_copytree(p) ==
    /\ pc[p] = "wgt_copytree"
    /\ \E ok \in BOOLEAN :
         IF ok
         THEN /\ scratch' = [scratch EXCEPT ![FreshTmp] =
                    DirAdd(DirEmpty, Item("wgt", Tree(call[p].source,
                                                      src[call[p].source])))]
              /\ call' = [call EXCEPT ![p].tmp = FreshTmp]
              /\ pc' = [pc EXCEPT ![p] = "wgt_config"]
         ELSE /\ scratch' = [scratch EXCEPT ![FreshTmp] = DirEmpty]
              /\ call' = [call EXCEPT ![p].tmp = FreshTmp, ![p].fault = TRUE,
                                      ![p].result = "raised"]
              /\ pc' = [pc EXCEPT ![p] = "raised"]
    /\ UNCHANGED <<fs, src, res, hist, prev, packager, walkvars>>

\* shutil.copy(resource, widget_build_dir): FileNotFoundError when missing
WgtCopy(p, at, present, name, next) ==
    /\ pc[p] = at
    /\ IF present
       THEN /\ scratch' = [scratch EXCEPT ![call[p].tmp] =
                              DirAdd(@, Item(name, ResourceFile(name)))]
            /\ Goto(p, next)
            /\ UNCHANGED call
       ELSE /\ Raise(p)
            /\ UNCHANGED scratch
    /\ UNCHANGED <<fs, src, res, hist, prev, packager, walkvars>>

create_sky_widget_copy_config(p) ==
    WgtCopy(p, "wgt_config", res.config, "config.xml", "wgt_icon")
create_sky_widget_copy_icon(p) ==
    WgtCopy(p, "wgt_icon", res.icon, "icon.png", "wgt_zip")

\* shutil.make_archive: writes <tmp_dir>/temp.zip, or fails with an OSError
create_sky_widget_zip(p) ==
    /\ pc[p] = "wgt_zip"
    /\ \E ok \in BOOLEAN :
         IF ok
         THEN /\ scratch' = [scratch EXCEPT ![call[p].tmp] =
                    DirAdd(@, Item("temp.zip", Zip(WgtItems(@))))]
              /\ Goto(p, "wgt_popen")
              /\ UNCHANGED call
         ELSE /\ pc' = [pc EXCEPT ![p] = "raised"]
              /\ call' = [call EXCEPT ![p].fault = TRUE, ![p].result = "raised"]
              /\ UNCHANGED scratch
    /\ UNCHANGED <<fs, src, res, hist, prev, packager, walkvars>>

\* subprocess.Popen: FileNotFoundError when the signer cannot be launched
create_sky_widget_popen(p) ==
    /\ pc[p] = "wgt_popen"
    /\ IF res.signer THEN Goto(p, "wgt_wait") /\ UNCHANGED call
                     ELSE Raise(p)
    /\ UNCHANGED <<fs, src, scratch, res, hist, prev, packager, walkvars>>

\* the signer runs to its end: with status 0 it has written --outwgt from
\* --inwgt; with another status it may have left an unfinished file
create_sky_widget_wait(p) ==
    /\ pc[p] = "wgt_wait"
    /\ \E return_code \in {0, 1}, wrote \in BOOLEAN :
         /\ return_code = 0 => wrote
         /\ call' = [call EXCEPT ![p].rc = return_code,
                                 ![p].fault = (return_code # 0)]
         /\ fs' = IF return_code = 0
                  THEN [fs EXCEPT ![call[p].out] = Signed(
                          (CHOOSE i \in scratch[call[p].tmp].items :
                              i.name = "temp.zip").body)]
                  ELSE IF wrote THEN [fs EXCEPT ![call[p].out] = Unfinished]
                  ELSE fs
    /\ Goto(p, "wgt_rmtree")
    /\ UNCHANGED <<src, scratch, res, hist, prev, packager, walkvars>>

create_sky_widget_cleanup(p) ==
    /\ pc[p] = "wgt_rmtree"
    /\ scratch' = Rmtree(scratch, call[p].tmp)
    /\ ReturnValue(p, WidgetResult(call[p].rc))
    /\ UNCHANGED <<fs, src, res, hist, prev, packager, walkvars>>

(***************************************************************************)
(* The environment: the upstream collaborator that owns the source trees.  *)
(***************************************************************************)
EnvSource(s) ==
    /\ \A p \in Procs : Idle(p)
    /\ \E v \in 0..MaxVer : v # src[s] /\ src' = [src EXCEPT ![s] = v]
    /\ UNCHANGED <<fs, scratch, res, pc, call, hist, prev, packager, walkvars>>

(***************************************************************************)
(* Spec: one caller, one call at a time.  The caller has selected one      *)
(* packager (main.py selects create_control_file + create_ipk with --ipk   *)
(* and create_tgz without; create_sky_widget is the third choice) and      *)
(* calls it any number of times, with or without the suffix in dest, while *)
(* the source tree comes, changes and goes between the calls.              *)
(***************************************************************************)
CtlInputs == {<<EmptyDict, EmptyDict>>,
              <<[arch |-> [arch |-> "arm", variant |-> "v7"]],
                [id |-> "app", version |-> "2.0.0", description |-> "demo",
                 priority |-> "required"]>>}

InitPkg ==
    /\ fs = [n \in FileNames |-> NoFile]
    /\ src \in [Sources -> 0..1]
    /\ src["B"] = 1
    /\ scratch = [d \in TmpIds |-> NoFile]
    /\ res \in [config : BOOLEAN, icon : BOOLEAN, signer : BOOLEAN]
    /\ pc = [p \in Procs |-> "idle"]
    /\ call = [p \in Procs |-> NoCall]
    /\ hist = [p \in Procs |-> NoSnapshot]
    /\ packager \in {"tgz", "ipk", "wgt"}
    /\ prev = [p \in Procs |-> NoPrev]

WalkIdle ==
    /\ wtree = <<>>
    /\ wpolicy = <<>>
    /\ wpc = "off"
    /\ wstack = <<>>
    /\ wtar = <<>>

Init == InitPkg /\ WalkIdle

Steps(p) ==
    \/ create_control_file_open(p)
    \/ create_control_file_write(p)
    \/ create_tgz_check(p)
    \/ create_tgz_remove(p)
    \/ create_tgz_open(p)
    \/ create_tgz_add(p)
    \/ create_tgz_close(p)
    \/ create_ipk_control_open(p)
    \/ create_ipk_control_add(p)
    \/ create_ipk_control_close(p)
    \/ create_ipk_debian_open(p)
    \/ create_ipk_debian_write(p)
    \/ create_ipk_bundle_open(p)
    \/ create_ipk_bundle_add_data(p)
    \/ create_ipk_bundle_add_control(p)
    \/ create_ipk_bundle_add_debian(p)
    \/ create_ipk_bundle_close(p)
    \/ create_ipk_remove_control(p)
    \/ create_ipk_remove_data(p)
    \/ create_ipk_remove_control_tar(p)
    \/ create_ipk_remove_debian(p)

WidgetSteps(p) ==
    \/ create_sky_widget_check(p)
    \/ create_sky_widget_remove(p)
    \/ create_sky_widget_copytree(p)
    \/ create_sky_widget_copy_config(p)
    \/ create_sky_widget_copy_icon(p)
    \/ create_sky_widget_zip(p)
    \/ create_sky_widget_popen(p)
    \/ create_sky_widget_wait(p)
    \/ create_sky_widget_cleanup(p)

Next ==
    \/ \E i \in CtlInputs : Invoke_create_control_file(1, i[1], i[2])
    \/ \E d \in DestsOf("tgz") : Invoke_create_tgz(1, "A", d)
    \/ \E d \in DestsOf("ipk") : Invoke_create_ipk(1, "A", d)
    \/ \E d \in DestsOf("wgt") : Invoke_create_sky_widget(1, "A", d)
    \/ Steps(1)
    \/ WidgetSteps(1)
    \/ Return(1)
    \/ EnvSource("A")

Spec == Init /\ [][Next]_vars

(***************************************************************************)
(* SpecConc: two callers, each running the tail of `generate` with --ipk   *)
(* (create_control_file, then create_ipk) in the same working directory,   *)
(* with their own source, destination and metadata.  Every file operation  *)
(* is one step, and the steps of the two callers interleave freely.        *)
(***************************************************************************)
ConcPlatform(p) == [arch |-> [arch |-> "arm", variant |-> "v7"]]
ConcMeta(p) == IF p = 1 THEN [id |-> "app"] ELSE [id |-> "app2"]

InitConc ==
    /\ fs = [n \in FileNames |-> NoFile]
    /\ src = [s \in Sources |-> 1]
    /\ scratch = [d \in TmpIds |-> NoFile]
    /\ res = [config |-> TRUE, icon |-> TRUE, signer |-> TRUE]
    /\ pc = [p \in Procs |-> "idle"]
    /\ call = [p \in Procs |-> NoCall]
    /\ hist = [p \in Procs |-> NoSnapshot]
    /\ prev = [p \in Procs |-> NoPrev]
    /\ packager = "ipk"
    /\ WalkIdle

\* main.py: Utils.create_control_file(selected_platform.get_config(), app_metadata_dict)
generate_create_control_file(p) ==
    /\ prev[p].op = "none"
    /\ Invoke_create_control_file(p, ConcPlatform(p), ConcMeta(p))

\* main.py: Utils.create_ipk(outputdir, outputdir)
generate_create_ipk(p) ==
    /\ prev[p].op = "ctl"
    /\ Invoke_create_ipk(p, ConcSource(p), ConcDest(p))

NextConc ==
    \E p \in Procs :
        \/ generate_create_control_file(p)
        \/ generate_create_ipk(p)
        \/ Steps(p)
        \/ Return(p)

SpecConc == InitConc /\ [][NextConc]_vars

(***************************************************************************)
(* What the output files are expected to hold, written out as literals.    *)
(***************************************************************************)
TreeArchive(s, v) ==
    [kind |-> "tar", closed |-> TRUE,
     members |-> << [name |-> <<>>,
                     body |-> [kind |-> "tree", src |-> s, ver |-> v]] >>]

ControlArchive(control) ==
    [kind |-> "tar", closed |-> TRUE,
     members |-> << [name |-> <<"control">>, body |-> control] >>]

ExpectedIpk(s, v, control) ==
    [kind |-> "tar", closed |-> TRUE,
     members |-> << [name |-> <<"data", ".tar.gz">>, body |-> TreeArchive(s, v)],
                    [name |-> <<"control", ".tar.gz">>,
                     body |-> ControlArchive(control)],
                    [name |-> <<"debian-binary">>,
                     body |-> [kind |-> "text", closed |-> TRUE,
                               lines |-> <<"2.0">>]] >>]

ExpectedWgt(s, v) ==
    [kind |-> "wgt", closed |-> TRUE,
     body |-> [kind |-> "zip",
               items |-> {[name |-> "wgt",
                           body |-> [kind |-> "tree", src |-> s, ver |-> v]],
                          [name |-> "config.xml",
                           body |-> [kind |-> "resource", name |-> "config.xml"]],
                          [name |-> "icon.png",
                           body |-> [kind |-> "resource", name |-> "icon.png"]]}]]

\* the path at which the running call of p puts its final output
OutputOf(p) == IF call[p].op = "tgz" THEN call[p].tgzout ELSE call[p].out
\* the source directory did not exist when the running call of p began
SourceMissingAtStart(p) == hist[p].src[call[p].source] = 0
\* the scratch workspace of the running call of p has been created
WorkspaceCreated(p) == call[p].tmp # 0
\* create_control_file had written the manifest when the running call began
ManifestWritten(p) ==
    hist[p].fs[CONTROL_FILE].kind = "text" /\ hist[p].fs[CONTROL_FILE].closed

(***************************************************************************)
(* C1: in create_sky_widget, once the scratch workspace has been created,  *)
(* every exit of the call (a returned value or an exception from copying   *)
(* the tree, copying a resource, zipping or launching the signer) leaves   *)
(* no scratch workspace behind.                                            *)
(***************************************************************************)
C1_WorkspaceRemovedOnEveryExit ==
    \A p \in Procs :
        (call[p].op = "wgt" /\ Terminal(p) /\ WorkspaceCreated(p))
            => scratch[call[p].tmp] = NoFile

(***************************************************************************)
(* C3: create_ipk, called after create_control_file, on a source directory *)
(* that does not exist reports a failure, produces no output file, leaves  *)
(* no control.tar.gz, debian-binary or partly written output behind, and   *)
(* never packages a data.tar.gz that an earlier run left in the working    *)
(* directory.                                                              *)
(***************************************************************************)
C3_MissingSourceIpkFailsCleanly ==
    \A p \in Procs :
        (call[p].op = "ipk" /\ Terminal(p) /\ SourceMissingAtStart(p)
         /\ ManifestWritten(p))
            => /\ call[p].result \in {"False", "raised"}
               /\ fs[call[p].out] = hist[p].fs[call[p].out]
               /\ fs[CONTROL_NAME] = hist[p].fs[CONTROL_NAME]
               /\ fs[DEBIAN_BIN_NAME] = hist[p].fs[DEBIAN_BIN_NAME]

\* the stale-archive case of C3 alone: a call on a missing source never ends
\* with success
C3_MissingSourceIpkNeverSucceeds ==
    \A p \in Procs :
        (call[p].op = "ipk" /\ Terminal(p) /\ SourceMissingAtStart(p)
         /\ ManifestWritten(p))
            => call[p].result # "True"

(***************************************************************************)
(* C5: a packaging call made with its preconditions satisfied (the source  *)
(* exists; for create_ipk the manifest has been written; for               *)
(* create_sky_widget the resources and the signer are in place and work)   *)
(* succeeds, also when it repeats the previous call and the previous       *)
(* output is still there; afterwards the file at the computed path holds   *)
(* exactly the result of this call, and nothing else has been added to or  *)
(* left in the working directory or the temporary root.                    *)
(***************************************************************************)
PreconditionsHold(p) ==
    /\ ~SourceMissingAtStart(p)
    /\ ~call[p].fault
    /\ call[p].op = "ipk" => ManifestWritten(p)
    /\ call[p].op = "wgt" => (res.config /\ res.icon /\ res.signer)

LatestResult(p) ==
    CASE call[p].op = "tgz" -> TreeArchive(call[p].source, src[call[p].source])
      [] call[p].op = "ipk" -> ExpectedIpk(call[p].source, src[call[p].source],
                                           hist[p].fs[CONTROL_FILE])
      [] call[p].op = "wgt" -> ExpectedWgt(call[p].source, src[call[p].source])

RepeatedCall(op) ==
    \E p \in Procs :
        /\ call[p].op = op
        /\ Terminal(p) /\ PreconditionsHold(p)
        /\ prev[p].packaged = call[p].op /\ prev[p].source = call[p].source
        /\ prev[p].dest = call[p].dest /\ prev[p].success
        /\ Exists(hist[p].fs, OutputOf(p))
        /\ hist[p].fs[OutputOf(p)] # fs[OutputOf(p)]

C5_WitnessTgz == RepeatedCall("tgz")
C5_WitnessWgt == RepeatedCall("wgt")

(***************************************************************************)
(* C6: create_sky_widget returns True exactly when the signer exited with  *)
(* status 0 and False when it exited with another status, and whenever the *)
(* signer has run the scratch workspace is gone when the call returns.     *)
(***************************************************************************)
C6_SignerStatusDecides ==
    \A p \in Procs :
        (call[p].op = "wgt" /\ pc[p] = "done")
            => /\ call[p].result \in {"True", "False"}
               /\ (call[p].result = "True") <=> (call[p].rc = 0)
               /\ call[p].rc # -1 =>
                     (WorkspaceCreated(p) /\ scratch[call[p].tmp] = NoFile)

\* the signer exited with a non-zero status and the call has returned
C6_Witness ==
    \E p \in Procs :
        /\ call[p].op = "wgt" /\ pc[p] = "done"
        /\ call[p].rc = 1 /\ call[p].result = "False"
        /\ scratch[call[p].tmp] = NoFile

(***************************************************************************)
(* C7: after create_ipk has returned True, none of control, data.tar.gz,   *)
(* control.tar.gz and debian-binary is in the working directory, and the   *)
(* output .ipk file exists.                                                *)
(***************************************************************************)
C7_IntermediatesRemoved ==
    \A p \in Procs :
        (call[p].op = "ipk" /\ pc[p] = "done" /\ call[p].result = "True")
            => /\ \A n \in Intermediates : ~Exists(fs, n)
               /\ Exists(fs, call[p].out)

\* a build preceded by create_control_file has returned True
C7_Witness ==
    \E p \in Procs :
        /\ call[p].op = "ipk" /\ pc[p] = "done" /\ call[p].result = "True"
        /\ prev[p].op = "ctl"
        /\ Exists(hist[p].fs, CONTROL_FILE)

(***************************************************************************)
(* C8: the outer archive that create_ipk writes holds exactly the members  *)
(* data.tar.gz, control.tar.gz and debian-binary, in that order, each      *)
(* complete and closed when it was added: the archive of the source tree,  *)
(* the archive holding the manifest, and the text 2.0.                     *)
(***************************************************************************)
BundleWritten(p) ==
    call[p].result = "True" \/ fs[call[p].out] # hist[p].fs[call[p].out]

C8_BundleMembersInOrder ==
    \A p \in Procs :
        (call[p].op = "ipk" /\ Terminal(p) /\ BundleWritten(p))
            => fs[call[p].out] = ExpectedIpk(call[p].source, src[call[p].source],
                                             hist[p].fs[CONTROL_FILE])

\* what remains of C8 when the source directory exists
C8_BundleMembersInOrderIfSourceExists ==
    \A p \in Procs :
        (call[p].op = "ipk" /\ Terminal(p) /\ BundleWritten(p)
         /\ ~SourceMissingAtStart(p))
            => fs[call[p].out] = ExpectedIpk(call[p].source, src[call[p].source],
                                             hist[p].fs[CONTROL_FILE])

(***************************************************************************)
(* C9: create_tgz and create_sky_widget on a source directory that does    *)
(* not exist return False and change nothing: no output file, no scratch   *)
(* workspace, and a file already at the computed output path is untouched. *)
(***************************************************************************)
C9_MissingSourceChangesNothing ==
    \A p \in Procs :
        (call[p].op \in {"tgz", "wgt"} /\ Terminal(p) /\ SourceMissingAtStart(p))
            => /\ pc[p] = "done"
               /\ call[p].result = "False"
               /\ fs = hist[p].fs
               /\ scratch = hist[p].scratch
               /\ src = hist[p].src

\* the call ended on a missing source with an earlier output still in place
C9_Witness ==
    \E p \in Procs :
        /\ call[p].op \in {"tgz", "wgt"} /\ Terminal(p) /\ SourceMissingAtStart(p)
        /\ Exists(fs, OutputOf(p))

(***************************************************************************)
(* C4: two concurrent create_ipk runs in one working directory share       *)
(* control, data.tar.gz, control.tar.gz and debian-binary.  A run that     *)
(* ends with an exception, or whose output differs from the package of its *)
(* own source and manifest, ends so only after the other run has touched   *)
(* the working directory; C4_Witness is the interleaving in which a run    *)
(* returns True with the other run's data archive and manifest in its      *)
(* output, C4_WitnessFailure the one in which it fails on a deleted file.  *)
(***************************************************************************)
OwnControl(p) ==
    [kind |-> "text", closed |-> TRUE,
     lines |-> Manifest(ConcPlatform(p), ConcMeta(p))]
OwnIpk(p) == ExpectedIpk(ConcSource(p), 1, OwnControl(p))
Other(p) == IF p = 1 THEN 2 ELSE 1
Touched(q) == prev[q].op # "none" \/ pc[q] \notin {"idle", "ctl_open"}
Corrupted(p) ==
    /\ call[p].op = "ipk" /\ Terminal(p)
    /\ call[p].result = "raised" \/ fs[call[p].out] # OwnIpk(p)

C4_CorruptionOnlyByTheOtherRun ==
    \A p \in Procs : Corrupted(p) => Touched(Other(p))

C4_Witness ==
    \E p \in Procs :
        /\ call[p].op = "ipk" /\ pc[p] = "done" /\ call[p].result = "True"
        /\ fs[call[p].out] = ExpectedIpk(ConcSource(Other(p)), 1,
                                         OwnControl(Other(p)))

C4_WitnessFailure ==
    \E p \in Procs :
        /\ call[p].op = "ipk" /\ pc[p] = "raised"
        /\ prev[Other(p)].op = "ipk" /\ prev[Other(p)].result = "True"

(***************************************************************************)
(* SpecWalk: the archive create_tgz writes, entry by entry.                *)
(*                                                                         *)
(* A source tree is the root directory (object 0) and up to MaxNodes       *)
(* objects below it; each object has the type os.lstat reports, a parent   *)
(* directory, and (a symlink) a target.  The name of an object in its      *)
(* directory is its number; a path is the sequence of names from the root. *)
(* Every object has its own inode (no hard links).                         *)
(***************************************************************************)
Kinds == {"reg", "dir", "sym", "fifo", "sock"}
NativeOwners == {0, 1000}

Objects(t) == 0..t.n
\* os.listdir(name)
ListDir(t, name) == {c \in 1..t.n : t.parent[c] = name}

RECURSIVE RelPath(_, _)
RelPath(t, o) == IF o = 0 THEN <<>> ELSE Append(RelPath(t, t.parent[o]), o)

RECURSIVE IsBelow(_, _, _)
\* o lies somewhere below the directory d
IsBelow(t, o, d) == o # 0 /\ (t.parent[o] = d \/ IsBelow(t, t.parent[o], d))

\* the root is a directory, and every object lies in a directory listed before it
KindFns(k) == {kd \in [0..k -> Kinds] : kd[0] = "dir"}
ParentFns(k, kd) ==
    {pa \in [0..k -> 0..k] :
        pa[0] = 0 /\ \A o \in 1..k : pa[o] < o /\ kd[pa[o]] = "dir"}
\* a symlink points to a directory of the tree (the root is an ancestor of
\* every object) or nowhere (-2, dangling); other objects have no target (-1)
TargetFns(k, kd) ==
    {tg \in [0..k -> -2..k] :
        \A o \in 0..k :
            IF kd[o] = "sym" THEN tg[o] = -2 \/ (tg[o] >= 0 /\ kd[tg[o]] = "dir")
                             ELSE tg[o] = -1}

Trees ==
    UNION { UNION { { [n |-> k, owner |-> ow, kind |-> kd, parent |-> pa,
                       target |-> tg] :
                        ow \in NativeOwners, pa \in ParentFns(k, kd),
                        tg \in TargetFns(k, kd) }
                    : kd \in KindFns(k) }
            : k \in 0..MaxNodes }

\* an argument that was not given (None), or its value
Unset == [set |-> FALSE, val |-> 0]
Given(v) == [set |-> TRUE, val |-> v]
\* Python's truth value of an optional integer: None and 0 are false
TruthyInt(x) == x.set /\ x.val # 0
\* ... and of an optional string: None and "" are false
TruthyStr(x) == x.set /\ Len(x.val) > 0

Policies ==
    [uid : {Unset, Given(0), Given(5)},
     gid : {Unset, Given(7)},
     mode_mask : {[set |-> FALSE, val |-> <<>>], [set |-> TRUE, val |-> <<7, 7, 0>>]}]

\* int(mode_mask, 8)
RECURSIVE IntOctal(_)
IntOctal(digits) ==
    IF Len(digits) = 0 THEN 0
    ELSE 8 * IntOctal(SubSeq(digits, 1, Len(digits) - 1)) + digits[Len(digits)]

\* a & b on non-negative integers
RECURSIVE BitAnd(_, _)
BitAnd(a, b) ==
    IF a = 0 \/ b = 0 THEN 0
    ELSE 2 * BitAnd(a \div 2, b \div 2) + (IF a % 2 = 1 /\ b % 2 = 1 THEN 1 ELSE 0)

\* the user / group database of the machine
NativeName(id) == IF id = 0 THEN "root" ELSE "vagrant"
NativeMode(kind) ==
    CASE kind = "dir" -> 493 [] kind = "sym" -> 511 [] OTHER -> 420

\* tar.gettarinfo(name, arcname): from os.lstat; None for a type tar cannot
\* hold (a socket)
NoTarInfo == [type |-> "None"]
GetTarInfo(t, o, arcname) ==
    IF t.kind[o] = "sock" THEN NoTarInfo
    ELSE [type |-> t.kind[o], name |-> arcname,
          uid |-> t.owner, uname |-> NativeName(t.owner),
          gid |-> t.owner, gname |-> NativeName(t.owner),
          mode |-> NativeMode(t.kind[o])]

\* add_tarinfo, lines 121-128
ApplyPolicy(tarinfo, uid, gid, mode_mask) ==
    LET a == IF TruthyInt(uid)
             THEN [tarinfo EXCEPT !.uid = uid.val, !.uname = ToString(uid.val)]
             ELSE tarinfo
        b == IF TruthyInt(gid)
             THEN [a EXCEPT !.gid = gid.val, !.gname = ToString(gid.val)]
             ELSE a
    IN  IF TruthyStr(mode_mask)
        THEN [b EXCEPT !.mode = BitAnd(@, IntOctal(mode_mask.val))]
        ELSE b

\* create_tgz, line 181
UsesAddTarinfo(policy) ==
    TruthyInt(policy.uid) \/ TruthyInt(policy.gid) \/ TruthyStr(policy.mode_mask)

Frame(o, arcname, t) == [name |-> o, arc |-> arcname, todo |-> ListDir(t, o)]

InitWalk ==
    /\ wtree \in Trees
    /\ wpolicy \in Policies
    /\ wpc = "start"
    /\ wstack = <<>>
    /\ wtar = <<>>
    /\ fs = [n \in FileNames |-> NoFile]
    /\ src = [s \in Sources |-> 1]
    /\ scratch = [d \in TmpIds |-> NoFile]
    /\ res = [config |-> TRUE, icon |-> TRUE, signer |-> TRUE]
    /\ pc = [p \in Procs |-> "idle"]
    /\ call = [p \in Procs |-> NoCall]
    /\ hist = [p \in Procs |-> NoSnapshot]
    /\ prev = [p \in Procs |-> NoPrev]
    /\ packager = "tgz"

\* one call of add_tarinfo(tar, tarinfo, name, name_in_archive, ...) up to its
\* recursion: the entry is added, and a directory gets a frame for its children
AddEntry(tarinfo, o, rest) ==
    /\ wtar' = Append(wtar, tarinfo)
    /\ wstack' = IF tarinfo.type = "dir"
                 THEN <<Frame(o, tarinfo.name, wtree)>> \o rest
                 ELSE rest
    /\ wpc' = "walk"

\* create_tgz, lines 182-183: the root entry through add_tarinfo
create_tgz_add_tarinfo ==
    /\ wpc = "start"
    /\ UsesAddTarinfo(wpolicy)
    /\ AddEntry(ApplyPolicy(GetTarInfo(wtree, 0, <<>>), wpolicy.uid, wpolicy.gid,
                            wpolicy.mode_mask), 0, <<>>)
    /\ UNCHANGED <<wtree, wpolicy, pkgvars>>

\* create_tgz, line 185: tar.add(source, arcname=...)
create_tgz_tar_add ==
    /\ wpc = "start"
    /\ ~UsesAddTarinfo(wpolicy)
    /\ AddEntry(GetTarInfo(wtree, 0, <<>>), 0, <<>>)
    /\ UNCHANGED <<wtree, wpolicy, pkgvars>>

\* add_tarinfo, lines 135-140: the next child of the directory being listed,
\* in the order os.listdir happens to give
add_tarinfo_child ==
    /\ wpc = "walk" /\ UsesAddTarinfo(wpolicy)
    /\ wstack # <<>>
    /\ \E f \in Head(wstack).todo :
         LET top == Head(wstack)
             name_in_archive_child == Append(top.arc, f)
             tarinfo_child == GetTarInfo(wtree, f, name_in_archive_child)
             rest == <<[top EXCEPT !.todo = @ \ {f}]>> \o Tail(wstack)
         IN  IF tarinfo_child = NoTarInfo
             THEN \* AttributeError: 'NoneType' object has no attribute ...
                  /\ wpc' = "raised"
                  /\ UNCHANGED <<wtar, wstack>>
             ELSE AddEntry(ApplyPolicy(tarinfo_child, wpolicy.uid, wpolicy.gid,
                                       wpolicy.mode_mask), f, rest)
    /\ UNCHANGED <<wtree, wpolicy, pkgvars>>

\* TarFile.add, recursing over sorted(os.listdir(name)); it skips an object
\* gettarinfo gives None for
tar_add_child ==
    /\ wpc = "walk" /\ ~UsesAddTarinfo(wpolicy)
    /\ wstack # <<>>
    /\ Head(wstack).todo # {}
    /\ LET top == Head(wstack)
           f == CHOOSE c \in top.todo : \A d \in top.todo : c <= d
           tarinfo_child == GetTarInfo(wtree, f, Append(top.arc, f))
           rest == <<[top EXCEPT !.todo = @ \ {f}]>> \o Tail(wstack)
       IN  IF tarinfo_child = NoTarInfo
           THEN wstack' = rest /\ UNCHANGED <<wtar, wpc>>
           ELSE AddEntry(tarinfo_child, f, rest)
    /\ UNCHANGED <<wtree, wpolicy, pkgvars>>

\* the loop over a directory's children is exhausted: the call returns
add_tarinfo_return ==
    /\ wpc = "walk"
    /\ wstack # <<>>
    /\ Head(wstack).todo = {}
    /\ wstack' = Tail(wstack)
    /\ UNCHANGED <<wtar, wpc, wtree, wpolicy, pkgvars>>

\* the with-block of create_tgz ends and the archive is closed
create_tgz_archive_close ==
    /\ wpc = "walk"
    /\ wstack = <<>>
    /\ wpc' = "done"
    /\ UNCHANGED <<wtar, wstack, wtree, wpolicy, pkgvars>>

NextWalk ==
    \/ create_tgz_add_tarinfo
    \/ create_tgz_tar_add
    \/ add_tarinfo_child
    \/ tar_add_child
    \/ add_tarinfo_return
    \/ create_tgz_archive_close

SpecWalk == InitWalk /\ [][NextWalk]_vars

\* the object an archive entry stands for: the last name of its path
ObjectOf(entry) == IF entry.name = <<>> THEN 0 ELSE entry.name[Len(entry.name)]
HasSocket(t) == \E o \in Objects(t) : t.kind[o] = "sock"

(***************************************************************************)
(* C2: when create_tgz is given uid=U (U any integer, 0 included), every   *)
(* entry of the archive it produces, the root entry included, has owner id *)
(* U and owner name str(U), whatever the owner on disk, and every object   *)
(* of the tree has its entry.                                              *)
(***************************************************************************)
OwnerIs(U) ==
    /\ \A i \in 1..Len(wtar) : wtar[i].uid = U /\ wtar[i].uname = ToString(U)
    /\ \A o \in Objects(wtree) :
          \E i \in 1..Len(wtar) : wtar[i].name = RelPath(wtree, o)

C2_OwnerOverridden ==
    (wpc = "done" /\ wpolicy.uid.set) => OwnerIs(wpolicy.uid.val)

\* what remains of C2 for a user id other than 0
C2_OwnerOverriddenIfNonZero ==
    (wpc = "done" /\ wpolicy.uid.set /\ wpolicy.uid.val # 0)
        => OwnerIs(wpolicy.uid.val)

(***************************************************************************)
(* C10: for every tree of regular files, directories, symlinks (also to a  *)
(* directory or an ancestor) and other special files, the walk add_tarinfo *)
(* ends normally, having added exactly one entry per object of the tree,   *)
(* named by the object's path from the root and of the object's own type   *)
(* (a symlink as a symlink, with nothing added for what it points to), a   *)
(* directory's entry before the entries of everything below it.            *)
(***************************************************************************)
OneEntryPerObject ==
    /\ Len(wtar) = Cardinality(Objects(wtree))
    /\ \A o \in Objects(wtree) :
          \E i \in 1..Len(wtar) :
              /\ wtar[i].name = RelPath(wtree, o)
              /\ wtar[i].type = wtree.kind[o]
    /\ \A i, j \in 1..Len(wtar) :
          IsBelow(wtree, ObjectOf(wtar[j]), ObjectOf(wtar[i])) => i < j

WalkCoversTree ==
    /\ wpc # "raised"
    /\ Len(wtar) <= Cardinality(Objects(wtree))
    /\ wpc = "done" => OneEntryPerObject

C10_WalkCoversTree == UsesAddTarinfo(wpolicy) => WalkCoversTree

\* what remains of C10 for a tree without a socket
C10_WalkCoversTreeWithoutSockets ==
    (UsesAddTarinfo(wpolicy) /\ ~HasSocket(wtree)) => WalkCoversTree

====
